---- MODULE Spec2Model ----
(***************************************************************************)
(* A model of main.go: the Bedrock model adapter (Model.Generate,          *)
(* Model.Call, Model.getResponse), the document fetcher (loadData,         *)
(* getDocsFromLink) and the run of main.                                   *)
(*                                                                         *)
(* Text is a sequence of characters.  A character is written as a short    *)
(* string: "n" is the letter n, QUOTE the double quote, BSLASH the         *)
(* backslash, LF the line feed and LT the less-than sign.  JSON source     *)
(* text is a sequence over the same names, so that the escaping done by    *)
(* json.Marshal and undone by json.Unmarshal is computed, not assumed.     *)
(***************************************************************************)
EXTENDS Naturals, Sequences, FiniteSets

\* Longest prompt text, document text and completion text, in characters.
MaxLen == 1

\* Most prompts handed to one call of Generate.
MaxPrompts == 2

\* The characters texts are made of.
Char == {"n", "QUOTE", "BSLASH", "LF", "LT"}

RECURSIVE SeqsUpTo(_, _)
SeqsUpTo(S, k) ==
  IF k = 0 THEN {<<>>}
  ELSE LET shorter == SeqsUpTo(S, k - 1)
       IN  shorter \cup {Append(s, c) : s \in shorter, c \in S}

Texts == SeqsUpTo(Char, MaxLen)

\* A second prompt, used to fill prompt sequences longer than one.
OtherPrompt == <<"n", "n">>

RECURSIVE Repeat(_, _)
Repeat(x, k) == IF k = 0 THEN <<>> ELSE <<x>> \o Repeat(x, k - 1)

\* The prompt sequences a caller hands to Generate: none, or a first prompt
\* followed by up to MaxPrompts - 1 further ones.
PromptSeqs ==
  {<<>>} \cup {<<x>> \o Repeat(OtherPrompt, k) : x \in Texts, k \in 0..(MaxPrompts - 1)}

(***************************************************************************)
(* Constants of main.go.                                                   *)
(***************************************************************************)
\* const format = "\n\nHuman:%s\n\nAssistant:", split at the %s verb.
formatHead == <<"LF", "LF", "H", "u", "m", "a", "n", ":">>

formatTail == <<"LF", "LF", "A", "s", "s", "i", "s", "t", "a", "n", "t", ":">>

modelID == "anthropic.claude-v2"

\* const prompt, the question main asks; its wording plays no part.
prompt == <<"Q">>

\* chains.WithMaxTokens(500) in main.
MainMaxTokens == 500

\* The errors of the program.  NoError is Go's nil error.
NoError == "nil"

ErrConfig == "config load error"

ErrHttp == "http get error"

ErrParse == "html parse error"

ErrUnsupportedValue == "json: unsupported value"

ErrTransport == "invoke model error"

ErrSyntax == "json: syntax error"

ErrUnmarshalType == "json: cannot unmarshal into string"

ErrNoResponse == "no response"

(***************************************************************************)
(* fmt.Sprintf(format, p): the text p put in place of the %s verb.         *)
(***************************************************************************)
MutSprintfFormat(p) == formatHead \o p \o <<"LF">> \o formatTail

SprintfFormat(p) == formatHead \o p \o formatTail

(***************************************************************************)
(* encoding/json on strings.  json.Marshal writes a Go string as a JSON    *)
(* string literal (the text between the quotes is modelled): it escapes    *)
(* the quote, the backslash and the line feed, and writes the HTML         *)
(* characters such as the less-than sign as a six character unicode        *)
(* escape (backslash, u, 0, 0, 3, c).                                      *)
(***************************************************************************)
EncodeChar(c) ==
  CASE c = "QUOTE"  -> <<"BSLASH", "QUOTE">>
    [] c = "BSLASH" -> <<"BSLASH", "BSLASH">>
    [] c = "LF"     -> <<"BSLASH", "n">>
    [] c = "LT"     -> <<"BSLASH", "u", "0", "0", "3", "c">>
    [] OTHER        -> <<c>>

RECURSIVE EncodeString(_)
EncodeString(s) ==
  IF s = <<>> THEN <<>> ELSE EncodeChar(Head(s)) \o EncodeString(Tail(s))

\* Another valid JSON writing of the same string, as an endpoint that does
\* not escape HTML characters produces it: < is written as itself.
RECURSIVE EncodePlain(_)
EncodePlain(s) ==
  IF s = <<>> THEN <<>>
  ELSE (IF Head(s) = "LT" THEN <<"LT">> ELSE EncodeChar(Head(s))) \o EncodePlain(Tail(s))

\* The JSON scanner's check of a string literal: a raw quote or control
\* character and an unknown escape are syntax errors.
RECURSIVE ValidLit(_)
ValidLit(lit) ==
  IF lit = <<>> THEN TRUE
  ELSE IF Head(lit) = "BSLASH"
       THEN /\ Len(lit) >= 2
            /\ \/ /\ lit[2] \in {"QUOTE", "BSLASH", "n"}
                  /\ ValidLit(SubSeq(lit, 3, Len(lit)))
               \/ /\ Len(lit) >= 6
                  /\ SubSeq(lit, 2, 6) = <<"u", "0", "0", "3", "c">>
                  /\ ValidLit(SubSeq(lit, 7, Len(lit)))
       ELSE /\ Head(lit) \notin {"QUOTE", "LF"}
            /\ ValidLit(Tail(lit))

\* The decoder's unquote of a valid literal.
RECURSIVE Unquote(_)
Unquote(lit) ==
  IF lit = <<>> THEN <<>>
  ELSE IF Head(lit) = "BSLASH"
       THEN CASE lit[2] = "QUOTE"  -> <<"QUOTE">> \o Unquote(SubSeq(lit, 3, Len(lit)))
              [] lit[2] = "BSLASH" -> <<"BSLASH">> \o Unquote(SubSeq(lit, 3, Len(lit)))
              [] lit[2] = "n"      -> <<"LF">> \o Unquote(SubSeq(lit, 3, Len(lit)))
              [] OTHER             -> <<"LT">> \o Unquote(SubSeq(lit, 7, Len(lit)))
       ELSE <<Head(lit)>> \o Unquote(Tail(lit))

(***************************************************************************)
(* JSON documents.  A body is either not JSON at all (valid = FALSE) or an *)
(* object: its members in order, each a key with a value of one kind.      *)
(* The value of a member is its source text: of a string member the       *)
(* literal, of a number member the digits, of an array of strings the      *)
(* literals separated by commas, of null nothing.                          *)
(***************************************************************************)
Member(k, kind, v) == [key |-> k, kind |-> kind, val |-> v]

Object(ms) == [valid |-> TRUE, members |-> ms]

NotJSON == [valid |-> FALSE, members |-> <<>>]

(***************************************************************************)
(* llms.CallOptions after the options of a call have been applied to its   *)
(* zero value (Generate, lines 100-103).  A float is written as a string;  *)
(* NaN stands for the values (NaN, +Inf, -Inf) JSON cannot carry.          *)
(***************************************************************************)
ZeroOptions ==
  [MaxTokens |-> 0, Temperature |-> "0", TopK |-> 0, TopP |-> "0", StopWords |-> <<>>]

\* chains.WithMaxTokens(500), chains.WithTemperature(0.1) in main.
MainOptions == [ZeroOptions EXCEPT !.MaxTokens = MainMaxTokens, !.Temperature = "0.1"]

OptionSets ==
  { ZeroOptions,
    MainOptions,
    [ZeroOptions EXCEPT !.Temperature = "NaN"],
    [ZeroOptions EXCEPT !.TopP = "NaN", !.TopK = 1],
    [MainOptions EXCEPT !.StopWords = << <<"LT">> >>] }

(***************************************************************************)
(* type Request and the request Generate builds (lines 105-112): only the  *)
(* first prompt is read.                                                   *)
(***************************************************************************)
BuildRequest(ps, o) ==
  [ Prompt            |-> SprintfFormat(ps[1]),
    MaxTokensToSample |-> o.MaxTokens,
    Temperature       |-> o.Temperature,
    TopP              |-> o.TopP,
    TopK              |-> o.TopK,
    StopSequences     |-> o.StopWords ]

(***************************************************************************)
(* json.Marshal(request) with the struct tags of type Request: prompt and  *)
(* max_tokens_to_sample are always written, the omitempty fields only when *)
(* they are not the zero value.  A float JSON cannot carry is an error.    *)
(***************************************************************************)
RECURSIVE EncodeStrings(_)
EncodeStrings(ss) ==
  IF ss = <<>> THEN <<>>
  ELSE EncodeString(Head(ss))
       \o (IF Tail(ss) = <<>> THEN <<>> ELSE <<",">> \o EncodeStrings(Tail(ss)))

Digit(d) == <<"0", "1", "2", "3", "4", "5", "6", "7", "8", "9">>[d + 1]

RECURSIVE EncodeInt(_)
EncodeInt(n) ==
  IF n < 10 THEN <<Digit(n)>> ELSE EncodeInt(n \div 10) \o <<Digit(n % 10)>>

Marshal(r) ==
  IF r.Temperature = "NaN" \/ r.TopP = "NaN"
  THEN [err |-> ErrUnsupportedValue, body |-> NotJSON]
  ELSE [err  |-> NoError,
        body |-> Object(
             << Member("prompt", "string", EncodeString(r.Prompt)),
                Member("max_tokens_to_sample", "number", EncodeInt(r.MaxTokensToSample)) >>
          \o (IF r.Temperature = "0" THEN <<>>
              ELSE <<Member("temperature", "number", <<r.Temperature>>)>>)
          \o (IF r.TopP = "0" THEN <<>>
              ELSE <<Member("top_p", "number", <<r.TopP>>)>>)
          \o (IF r.TopK = 0 THEN <<>>
              ELSE <<Member("top_k", "number", EncodeInt(r.TopK))>>)
          \o (IF r.StopSequences = <<>> THEN <<>>
              ELSE <<Member("stop_sequences", "array", EncodeStrings(r.StopSequences))>>))]

(***************************************************************************)
(* json.Unmarshal(out.Body, &resp) with type Response (lines 35-37, 177):  *)
(* a body that is not JSON is a syntax error; a member whose key is        *)
(* "completion", in any letter case, sets Completion when it is a string,  *)
(* leaves it alone when it is null, and is a type error otherwise; other   *)
(* members are skipped; a later member overwrites an earlier one.  A body  *)
(* with no such member leaves Completion at its zero value, the empty      *)
(* string, and is no error.                                                *)
(***************************************************************************)
CompletionKeys == {"completion", "Completion", "COMPLETION"}

SyntaxOK(b) ==
  /\ b.valid
  /\ \A i \in 1..Len(b.members) :
       b.members[i].kind = "string" => ValidLit(b.members[i].val)

RECURSIVE DecodeMembers(_, _)
DecodeMembers(ms, acc) ==
  IF ms = <<>> THEN acc
  ELSE LET m == Head(ms)
       IN  DecodeMembers(Tail(ms),
             IF m.key \notin CompletionKeys THEN acc
             ELSE CASE m.kind = "string" -> [acc EXCEPT !.Completion = Unquote(m.val)]
                    [] m.kind = "null"   -> acc
                    [] OTHER             ->
                         IF acc.err = NoError
                         THEN [acc EXCEPT !.err = ErrUnmarshalType]
                         ELSE acc)

Unmarshal(b) ==
  IF ~SyntaxOK(b)
  THEN [Completion |-> <<>>, err |-> ErrSyntax]
  ELSE DecodeMembers(b.members, [Completion |-> <<>>, err |-> NoError])

(***************************************************************************)
(* What InvokeModel can answer (getResponse, lines 167-174): an error of   *)
(* the transport, or a body.  An answer that is the JSON body              *)
(* {"completion": C} records C in "completion" with carries = TRUE.        *)
(***************************************************************************)
Carrying(c, lit) ==
  [err |-> NoError, body |-> Object(<<Member("completion", "string", lit)>>),
   carries |-> TRUE, completion |-> c]

Other(b) == [err |-> NoError, body |-> b, carries |-> FALSE, completion |-> <<>>]

TransportFailure ==
  [err |-> ErrTransport, body |-> NotJSON, carries |-> FALSE, completion |-> <<>>]

NoReply == [err |-> NoError, body |-> NotJSON, carries |-> FALSE, completion |-> <<>>]

Replies ==
       {TransportFailure}
  \cup {Carrying(c, EncodeString(c)) : c \in Texts}
  \cup {Carrying(c, EncodePlain(c)) : c \in Texts}
  \cup { Other(NotJSON),
         Other(Object(<<>>)),
         Other(Object(<<Member("message", "string", <<"n">>)>>)),
         Other(Object(<<Member("completion", "number", <<"5">>)>>)),
         Other(Object(<<Member("completion", "null", <<>>)>>)),
         Other(Object(<<Member("completion", "string", <<"LF">>)>>)),
         Other(Object(<<Member("COMPLETION", "string", <<"n">>)>>)),
         Other(Object(<<Member("completion", "string", <<"n">>),
                        Member("completion", "string", <<"LT">>)>>)) }

(***************************************************************************)
(* The state of one run: of main, or of one call of Model.Call or          *)
(* Model.Generate by another caller (a test with a mocked endpoint, the    *)
(* chain library).                                                         *)
(***************************************************************************)
VARIABLES
  entry,        \* who runs: "main", "Call" or "Generate"
  pc,           \* the position of the run in the code
  handler,      \* Model.CallbacksHandler != nil
  arg,          \* the prompt argument of Model.Call
  prompts,      \* the prompts argument of Model.Generate
  opts,         \* the llms.CallOptions of the call
  request,      \* the Request built by Generate
  payload,      \* the marshalled request
  wire,         \* what InvokeModel answered
  resp,         \* the Response decoded by getResponse
  generations,  \* the generations Generate returns (<<>> is nil)
  genErr,       \* the error Generate returns
  raised,       \* the error of the operation that failed inside Generate
  callText,     \* the text Model.Call returns
  callErr,      \* the error Model.Call returns
  body,         \* the HTTP response body: "none", "open" or "closed"
  docs,         \* the text of the documents loaded from the link
  events,       \* the calls made to the handler, the network and the body, in order
  sent,         \* the inputs handed to InvokeModel, in order
  stdout,       \* the lines printed to standard output, in order
  logged,       \* the errors written by log.Fatal, in order
  exit          \* the exit status of the process: "running", "0" or "1"

vars ==
  << entry, pc, handler, arg, prompts, opts, request, payload, wire, resp,
     generations, genErr, raised, callText, callErr, body, docs, events, sent,
     stdout, logged, exit >>

fetchVars == << body, docs >>

genVars == << request, payload, wire, resp, generations, genErr, raised >>

callVars == << callText, callErr >>

inputVars == << entry, handler, arg, prompts, opts >>

processVars == << stdout, logged, exit >>

ZeroRequest ==
  [ Prompt |-> <<>>, MaxTokensToSample |-> 0, Temperature |-> "0", TopP |-> "0",
    TopK |-> 0, StopSequences |-> <<>> ]

Progress(what) == [kind |-> "progress", text |-> <<what>>]

Answer(text) == [kind |-> "answer", text |-> text]

Count(s, e) == Cardinality({i \in 1..Len(s) : s[i] = e})

Init ==
  /\ entry \in {"main", "Call", "Generate"}
  /\ pc = (CASE entry = "main" -> "main_config"
             [] entry = "Call" -> "call_enter"
             [] OTHER          -> "gen_start")
  \* newLargeLanguageModel sets CallbacksHandler to nil (line 69); another
  \* caller may have configured a handler.
  /\ handler \in (IF entry = "main" THEN {FALSE} ELSE BOOLEAN)
  /\ arg \in (IF entry = "Call" THEN Texts ELSE {<<>>})
  /\ prompts \in (IF entry = "Generate" THEN PromptSeqs ELSE {<<>>})
  /\ opts \in (IF entry = "main" THEN {ZeroOptions} ELSE OptionSets)
  /\ request = ZeroRequest
  /\ payload = NotJSON
  /\ wire = NoReply
  /\ resp = [Completion |-> <<>>]
  /\ generations = <<>>
  /\ genErr = NoError
  /\ raised = NoError
  /\ callText = <<>>
  /\ callErr = NoError
  /\ body = "none"
  /\ docs = <<>>
  /\ events = <<>>
  /\ sent = <<>>
  /\ stdout = <<>>
  /\ logged = <<>>
  /\ exit = "running"

(***************************************************************************)
(* main and the document fetcher.                                          *)
(***************************************************************************)
\* log.Fatal(err): the error is logged and os.Exit(1) ends the process at
\* once; deferred calls do not run.
Fatal(err) ==
  /\ logged' = Append(logged, err)
  /\ exit' = "1"
  /\ pc' = "exited"
  /\ stdout' = stdout

\* main, line 48, and newLargeLanguageModel, lines 62-74.
LoadConfig ==
  /\ pc = "main_config"
  /\ \/ Fatal(ErrConfig)
     \/ /\ pc' = "fetch_begin"
        /\ UNCHANGED processVars
  /\ UNCHANGED << inputVars, genVars, callVars, fetchVars, events, sent >>

\* getDocsFromLink, line 147.
FetchBegin ==
  /\ pc = "fetch_begin"
  /\ stdout' = Append(stdout, Progress("loading"))
  /\ pc' = "fetch_get"
  /\ UNCHANGED << inputVars, genVars, callVars, fetchVars, events, sent, logged, exit >>

\* What loadData does with the error of getDocsFromLink (lines 139-141).
MutOnFetchError(err) ==
  /\ pc' = "fetch_get"
  /\ UNCHANGED processVars

OnFetchError(err) == Fatal(err)

\* getDocsFromLink, lines 149-153: http.Get, the error returned to loadData,
\* or the body acquired and its Close deferred.
HttpGet ==
  /\ pc = "fetch_get"
  /\ events' = Append(events, "HttpGet")
  /\ \/ /\ OnFetchError(ErrHttp)
        /\ body' = body
     \/ /\ body' = "open"
        /\ pc' = "fetch_parse"
        /\ UNCHANGED processVars
  /\ UNCHANGED << inputVars, genVars, callVars, docs, sent >>

\* getDocsFromLink, lines 155-158: the HTML loader reads the body; its error
\* goes to log.Fatal, which exits without running the deferred Close.
HtmlLoad ==
  /\ pc = "fetch_parse"
  /\ \/ /\ Fatal(ErrParse)
        /\ docs' = docs
     \/ /\ docs' \in Texts
        /\ pc' = "fetch_end"
        /\ UNCHANGED processVars
  /\ UNCHANGED << inputVars, genVars, callVars, body, events, sent >>

\* getDocsFromLink, lines 160-162, and the deferred resp.Body.Close() of
\* line 153, which runs as the function returns.
FetchEnd ==
  /\ pc = "fetch_end"
  /\ stdout' = Append(stdout, Progress("loaded"))
  /\ body' = "closed"
  /\ events' = Append(events, "BodyClose")
  /\ pc' = "chain"
  /\ UNCHANGED << inputVars, genVars, callVars, docs, sent, logged, exit >>

\* main, lines 51-54: the chain stuffs the documents and the question into
\* one prompt and hands it, with main's options, to the model through
\* GeneratePrompt (lines 76-78), which calls Generate.
ChainCall ==
  /\ pc = "chain"
  /\ prompts' = << docs \o prompt >>
  /\ opts' = MainOptions
  /\ pc' = "gen_start"
  /\ UNCHANGED << entry, handler, arg, genVars, callVars, fetchVars, events, sent,
                  processVars >>

\* Model.Call, line 85.
CallEnter ==
  /\ pc = "call_enter"
  /\ prompts' = << arg >>
  /\ pc' = "gen_start"
  /\ UNCHANGED << entry, handler, arg, opts, genVars, callVars, fetchVars, events,
                  sent, processVars >>

(***************************************************************************)
(* Model.Generate.                                                         *)
(***************************************************************************)
\* Lines 96-98.
StartEvents(h) == IF h THEN <<"HandleLLMStart">> ELSE <<>>

\* Lines 130-132.
MutEndEvents(h) == <<"HandleLLMEnd">>

EndEvents(h) == IF h THEN <<"HandleLLMEnd">> ELSE <<>>

\* Lines 126-128.
MutGenerations(r) == << [Text |-> r.Completion], [Text |-> r.Completion] >>

MutGenerationsText(r) == << [Text |-> SprintfFormat(r.Completion)] >>

Generations(r) == << [Text |-> r.Completion] >>

GenStart ==
  /\ pc = "gen_start"
  /\ events' = events \o StartEvents(handler)
  /\ pc' = "gen_build"
  /\ UNCHANGED << inputVars, genVars, callVars, fetchVars, sent, processVars >>

\* Lines 100-112.  prompts[0] of an empty slice is a run-time panic (index
\* out of range): the call does not return.
GenBuild ==
  /\ pc = "gen_build"
  /\ \/ /\ prompts = <<>>
        /\ pc' = "panicked"
        /\ request' = request
     \/ /\ prompts # <<>>
        /\ request' = BuildRequest(prompts, opts)
        /\ pc' = "gen_marshal"
  /\ UNCHANGED << inputVars, payload, wire, resp, generations, genErr, raised,
                  callVars, fetchVars, events, sent, processVars >>

\* return nil, err (lines 116 and 123).
ReturnError(err) ==
  /\ raised' = err
  /\ genErr' = err
  /\ generations' = <<>>
  /\ pc' = "gen_returned"

\* Lines 114-117.
GenMarshal ==
  /\ pc = "gen_marshal"
  /\ LET m == Marshal(request)
     IN  \/ /\ m.err # NoError
            /\ ReturnError(m.err)
            /\ payload' = payload
         \/ /\ m.err = NoError
            /\ payload' = m.body
            /\ pc' = "gen_invoke"
            /\ UNCHANGED << generations, genErr, raised >>
  /\ UNCHANGED << inputVars, request, wire, resp, callVars, fetchVars, events, sent,
                  processVars >>

\* The bedrockruntime.InvokeModelInput of getResponse, lines 167-171.
InvokeModelInput(p) ==
  [Body |-> p, ModelId |-> modelID, ContentType |-> "application/json"]

\* getResponse, lines 167-174: the payload is handed to InvokeModel, which
\* answers with an error or a body.
InvokeModel ==
  /\ pc = "gen_invoke"
  /\ events' = Append(events, "InvokeModel")
  /\ sent' = Append(sent, InvokeModelInput(payload))
  /\ \E r \in Replies :
       /\ wire' = r
       /\ \/ /\ r.err # NoError
             /\ ReturnError(r.err)
          \/ /\ r.err = NoError
             /\ pc' = "gen_unmarshal"
             /\ UNCHANGED << generations, genErr, raised >>
  /\ UNCHANGED << inputVars, request, payload, resp, callVars, fetchVars, processVars >>

\* getResponse, lines 175-183, and Generate, lines 121-124.
GenUnmarshal ==
  /\ pc = "gen_unmarshal"
  /\ LET u == Unmarshal(wire.body)
     IN  \/ /\ u.err # NoError
            /\ ReturnError(u.err)
            /\ resp' = resp
         \/ /\ u.err = NoError
            /\ resp' = [Completion |-> u.Completion]
            /\ pc' = "gen_end"
            /\ UNCHANGED << generations, genErr, raised >>
  /\ UNCHANGED << inputVars, request, payload, wire, callVars, fetchVars, events, sent,
                  processVars >>

\* Lines 126-133.
GenEnd ==
  /\ pc = "gen_end"
  /\ generations' = Generations(resp)
  /\ events' = events \o EndEvents(handler)
  /\ genErr' = NoError
  /\ pc' = "gen_returned"
  /\ UNCHANGED << inputVars, request, payload, wire, resp, raised, callVars, fetchVars,
                  sent, processVars >>

\* Generate returns to a caller that called it directly.
GenerateReturn ==
  /\ pc = "gen_returned"
  /\ entry = "Generate"
  /\ pc' = "done"
  /\ UNCHANGED << inputVars, genVars, callVars, fetchVars, events, sent, processVars >>

(***************************************************************************)
(* Model.Call, lines 86-92.                                                *)
(***************************************************************************)
CallResult(r, err) ==
  IF err # NoError THEN [text |-> <<>>, err |-> err]
  ELSE IF Len(r) = 0 THEN [text |-> <<>>, err |-> ErrNoResponse]
  ELSE [text |-> r[1].Text, err |-> NoError]

CallReturn ==
  /\ pc = "gen_returned"
  /\ entry = "Call"
  /\ callText' = CallResult(generations, genErr).text
  /\ callErr' = CallResult(generations, genErr).err
  /\ pc' = "done"
  /\ UNCHANGED << inputVars, genVars, fetchVars, events, sent, processVars >>

(***************************************************************************)
(* main, lines 55-59: the error of the chain, which is the error of        *)
(* Generate, goes to log.Fatal; otherwise the answer, the text of the      *)
(* generation, is printed and main returns.                                *)
(***************************************************************************)
MutChainFailed(err) == FALSE

ChainFailed(err) == err # NoError

MainFinish ==
  /\ pc = "gen_returned"
  /\ entry = "main"
  /\ \/ /\ ChainFailed(genErr)
        /\ Fatal(genErr)
     \/ /\ ~ChainFailed(genErr)
        /\ stdout' = Append(stdout, Answer(IF generations = <<>> THEN <<>>
                                           ELSE generations[1].Text))
        /\ exit' = "0"
        /\ pc' = "exited"
        /\ logged' = logged
  /\ UNCHANGED << inputVars, genVars, callVars, fetchVars, events, sent >>

Next ==
  \/ LoadConfig
  \/ FetchBegin
  \/ HttpGet
  \/ HtmlLoad
  \/ FetchEnd
  \/ ChainCall
  \/ CallEnter
  \/ GenStart
  \/ GenBuild
  \/ GenMarshal
  \/ InvokeModel
  \/ GenUnmarshal
  \/ GenEnd
  \/ GenerateReturn
  \/ CallReturn
  \/ MainFinish

Spec == Init /\ [][Next]_vars

(***************************************************************************)
(* Properties.                                                             *)
(***************************************************************************)
IsPrefix(s, t) == Len(s) <= Len(t) /\ s = SubSeq(t, 1, Len(s))

\* Generate has returned to its caller.
Returned == pc \in {"gen_returned", "done"}

\* Generate has passed its first statement.
PastStart ==
  pc \in {"gen_build", "gen_marshal", "gen_invoke", "gen_unmarshal", "gen_end",
          "gen_returned", "done", "panicked"}

Starts == Count(events, "HandleLLMStart")

Ends == Count(events, "HandleLLMEnd")

Printed(kind) == \E i \in 1..Len(stdout) : stdout[i].kind = kind

\* C1: with a handler configured, a call of Generate notifies the start
\* exactly once, as the last thing before InvokeModel is dispatched, and the
\* end exactly once, after the remote call, and only when the call returns
\* successfully; a failing call never notifies the end; with no handler
\* neither notification is made.
C1_HandlerNotifiedOncePerCall ==
  /\ ~handler => Starts = 0 /\ Ends = 0
  /\ handler =>
       /\ Starts = (IF PastStart THEN 1 ELSE 0)
       /\ Ends = (IF Returned /\ genErr = NoError THEN 1 ELSE 0)
       /\ \A i \in 1..Len(events) :
            /\ events[i] = "InvokeModel" => i > 1 /\ events[i - 1] = "HandleLLMStart"
            /\ events[i] = "HandleLLMEnd" => i > 1 /\ events[i - 1] = "InvokeModel"
       /\ (Returned /\ genErr # NoError) \/ pc = "panicked" => Ends = 0

\* A successful call with a handler: start, dispatch, end.
C1_Witness ==
  /\ handler
  /\ pc = "done"
  /\ genErr = NoError
  /\ events = <<"HandleLLMStart", "InvokeModel", "HandleLLMEnd">>

\* C2: in a run of main an error at any step (configuration load, HTTP
\* fetch, HTML parse, request serialization, InvokeModel, response
\* deserialization) ends the process at once with status 1 and that error
\* logged: no later step runs, neither the fetch nor the remote call is
\* repeated, the answer is not printed, and nothing happens after the exit.
C2_State ==
  entry = "main" =>
    /\ logged # <<>> => /\ pc = "exited"
                        /\ exit = "1"
                        /\ Len(logged) = 1
                        /\ ~Printed("answer")
    /\ exit = "1" => Len(logged) = 1
    /\ logged = <<ErrConfig>> => events = <<>> /\ stdout = <<>>
    /\ logged = <<ErrHttp>> => events = <<"HttpGet">> /\ body = "none" /\ sent = <<>>
    /\ logged = <<ErrParse>> => events = <<"HttpGet">> /\ sent = <<>>
    /\ raised # NoError =>
         /\ genErr = raised
         /\ ~Printed("answer")
         /\ sent = (IF raised = ErrUnsupportedValue THEN <<>>
                 ELSE <<InvokeModelInput(payload)>>)
         /\ \/ pc = "gen_returned" /\ exit = "running"
            \/ pc = "exited" /\ exit = "1" /\ logged = <<raised>>
    /\ Count(events, "HttpGet") <= 1
    /\ Count(events, "InvokeModel") <= 1

C2_ErrorEndsTheRun == []C2_State /\ [][pc # "exited"]_vars

\* A run of main that failed in the remote call.
C2_Witness ==
  /\ entry = "main"
  /\ pc = "exited"
  /\ exit = "1"
  /\ logged = <<ErrTransport>>

\* C3: once getDocsFromLink has obtained an HTTP response, the body is
\* closed on every way out of the fetch, the failing HTML parse included:
\* the body is open only while the fetch is still reading it.
C3_BodyClosedOnEveryExit == body = "open" => pc \in {"fetch_parse", "fetch_end"}

\* C4: every successful call of Generate returns exactly one generation,
\* built from the response of the single InvokeModel dispatch of the call.
C4_OneGenerationPerCall ==
  Returned /\ genErr = NoError =>
    /\ Len(generations) = 1
    /\ generations[1].Text = resp.Completion
    /\ resp.Completion = Unmarshal(wire.body).Completion
    /\ Count(events, "InvokeModel") = 1
    /\ Len(sent) = 1
    /\ sent[1].ModelId = "anthropic.claude-v2"

\* A successful call that was given two prompts.
C4_Witness ==
  /\ entry = "Generate"
  /\ pc = "done"
  /\ genErr = NoError
  /\ Len(prompts) = 2
  /\ Len(generations) = 1

\* The text a receiver reads out of the string member "key" of a payload.
StringMembers(b, key) ==
  {i \in 1..Len(b.members) : b.members[i].key = key /\ b.members[i].kind = "string"}

\* C5: the payload handed to InvokeModel has exactly one prompt member, and
\* its text is the first prompt between "\n\nHuman:" and "\n\nAssistant:",
\* nothing added, removed or reordered.
C5_PromptFieldIsTemplate ==
  \A k \in 1..Len(sent) :
    /\ sent[k].Body.valid
    /\ Cardinality(StringMembers(sent[k].Body, "prompt")) = 1
    /\ \A i \in StringMembers(sent[k].Body, "prompt") :
         /\ ValidLit(sent[k].Body.members[i].val)
         /\ Unquote(sent[k].Body.members[i].val)
              = <<"LF", "LF", "H", "u", "m", "a", "n", ":">>
                  \o prompts[1]
                  \o <<"LF", "LF", "A", "s", "s", "i", "s", "t", "a", "n", "t", ":">>

\* A payload was sent for a prompt that JSON has to escape.
C5_Witness ==
  /\ sent # <<>>
  /\ prompts[1] = <<"QUOTE">>

\* C6: when the endpoint answers {"completion": C}, Generate returns one
\* generation whose text is C and no error, and Call returns C and no error.
C6_CompletionReturnedUnchanged ==
  wire.carries =>
    /\ Returned => genErr = NoError /\ generations = << [Text |-> wire.completion] >>
    /\ entry = "Call" /\ pc = "done" => callText = wire.completion /\ callErr = NoError

\* Call has returned a completion that JSON carries escaped.
C6_Witness ==
  /\ entry = "Call"
  /\ pc = "done"
  /\ wire.carries
  /\ wire.completion = <<"LF">>
  /\ callText = <<"LF">>

\* The calls a run of main makes, in order.
MainSequence == <<"HttpGet", "BodyClose", "InvokeModel">>

\* C7 as stated: every run of main performs exactly one HTTP GET, dispatches
\* the remote call only after the fetch has succeeded, at most once, and
\* repeats neither.
C7_ExactlyOneGetInEveryRun ==
  entry = "main" =>
    /\ IsPrefix(events, MainSequence)
    /\ pc = "exited" => Count(events, "HttpGet") = 1

\* C7 amended: a run of main is one linear sequence with at most one HTTP
\* GET, exactly one unless the configuration load fails (main loads the
\* configuration before it fetches, and then performs none); the remote call
\* is dispatched only after the fetch has succeeded and its body is closed,
\* at most once, and neither is repeated.
C7_LinearRun ==
  entry = "main" =>
    /\ IsPrefix(events, MainSequence)
    /\ pc = "exited" =>
         Count(events, "HttpGet") = (IF logged = <<ErrConfig>> THEN 0 ELSE 1)
    /\ sent # <<>> => /\ body = "closed"
                      /\ Printed("progress")
                      /\ stdout[2] = Progress("loaded")
    /\ Len(sent) = Count(events, "InvokeModel")

\* A complete successful run of main.
C7_Witness ==
  /\ entry = "main"
  /\ pc = "exited"
  /\ exit = "0"
  /\ events = MainSequence

\* C9 rests on a case the code never produces: Generate returns an error or
\* exactly one generation, so the len(r) == 0 branch of Call is never taken
\* and Call never returns "no response".
C9_EmptyResultNeverArises ==
  /\ callErr # ErrNoResponse
  /\ Returned /\ genErr = NoError => generations # <<>>

\* The body InvokeModel answered has a completion member.
HasCompletionMember(b) ==
  \E i \in 1..Len(b.members) : b.members[i].key \in CompletionKeys

\* C8: Generate fails, returning the error of the failing operation
\* unchanged and no generations and not dispatching again, when the request
\* cannot be serialized, when InvokeModel fails, and when the response body
\* does not contain the completion field.
C8_GenerateFailsInThreeCases ==
  Returned =>
    /\ Len(sent) <= 1
    /\ raised # NoError => genErr = raised /\ generations = <<>>
    /\ Marshal(request).err # NoError => genErr = ErrUnsupportedValue /\ sent = <<>>
    /\ sent # <<>> /\ wire.err # NoError => genErr = wire.err
    /\ sent # <<>> /\ wire.err = NoError /\ ~HasCompletionMember(wire.body) =>
         genErr # NoError /\ generations = <<>>

\* C10: Generate handles every prompt sequence: an empty one ends with a
\* return, not with an abort after the start notification, and of n >= 1
\* prompts each is transmitted and yields its own generation.
C10_EveryPromptHandled ==
  /\ pc # "panicked"
  /\ Returned /\ genErr = NoError =>
       /\ Len(generations) = Len(prompts)
       /\ Len(sent) = Len(prompts)

====
